---- MODULE Spec2Model ----
(***************************************************************************)
(* medpy.io.load: suffix routed image loading with a brute-force fallback. *)
(* A path is a sequence of one-character strings.  Every call of load() is *)
(* a process c \in Calls that runs the body of load() step by step; the    *)
(* third-party modules (nibabel, pydicom, itk) and the file system are the *)
(* environment and answer nondeterministically.                            *)
(***************************************************************************)
EXTENDS Integers, Sequences, FiniteSets, TLC

\* ---------------------------------------------------------------- bounds
MaxStem == 1

\* ---------------------------------------------------------------- strings
DOT == "."

UpperToLower ==
    ("A" :> "a") @@ ("B" :> "b") @@ ("C" :> "c") @@ ("D" :> "d") @@
    ("E" :> "e") @@ ("F" :> "f") @@ ("G" :> "g") @@ ("H" :> "h") @@
    ("I" :> "i") @@ ("J" :> "j") @@ ("K" :> "k") @@ ("L" :> "l") @@
    ("M" :> "m") @@ ("N" :> "n") @@ ("O" :> "o") @@ ("P" :> "p") @@
    ("Q" :> "q") @@ ("R" :> "r") @@ ("S" :> "s") @@ ("T" :> "t") @@
    ("U" :> "u") @@ ("V" :> "v") @@ ("W" :> "w") @@ ("X" :> "x") @@
    ("Y" :> "y") @@ ("Z" :> "z")

\* str.lower() on one character
LowerChar(ch) == IF ch \in DOMAIN UpperToLower THEN UpperToLower[ch] ELSE ch

\* str.lower()
LowerKeepCase(s) == s
Lower(s) == [i \in 1..Len(s) |-> LowerChar(s[i])]

\* str.split('.'): the segments between the dots, never an empty list
RECURSIVE SplitFrom(_, _, _, _)
SplitFrom(s, i, cur, acc) ==
    IF i > Len(s) THEN Append(acc, cur)
    ELSE IF s[i] = DOT THEN SplitFrom(s, i + 1, <<>>, Append(acc, cur))
    ELSE SplitFrom(s, i + 1, Append(cur, s[i]), acc)

Split(s) == SplitFrom(s, 1, <<>>, <<>>)

\* '.'.join(parts)
RECURSIVE Join(_)
Join(parts) ==
    IF Len(parts) = 0 THEN <<>>
    ELSE IF Len(parts) = 1 THEN parts[1]
    ELSE parts[1] \o <<DOT>> \o Join(Tail(parts))

\* seq[-1]
Last(seq) == seq[Len(seq)]

\* seq[-2:]
LastTwo(seq) == IF Len(seq) <= 2 THEN seq ELSE SubSeq(seq, Len(seq) - 1, Len(seq))

\* ---------------------------------------------------------------- tables
nii     == <<"n", "i", "i">>
gz      == <<"g", "z">>
nii_gz  == <<"n", "i", "i", ".", "g", "z">>
hdr     == <<"h", "d", "r">>
img     == <<"i", "m", "g">>
img_gz  == <<"i", "m", "g", ".", "g", "z">>
dcm     == <<"d", "c", "m">>
dicom   == <<"d", "i", "c", "o", "m">>
mhd     == <<"m", "h", "d">>
mha     == <<"m", "h", "a">>
nrrd    == <<"n", "r", "r", "d">>
nhdr    == <<"n", "h", "d", "r">>
png     == <<"p", "n", "g">>
bmp     == <<"b", "m", "p">>
tif     == <<"t", "i", "f">>
tiff    == <<"t", "i", "f", "f">>
jpg     == <<"j", "p", "g">>
jpeg    == <<"j", "p", "e", "g">>

suffix_to_type ==
    (nii :> "nifti") @@ (nii_gz :> "nifti") @@
    (hdr :> "analyze") @@ (img :> "analyze") @@ (img_gz :> "analyze") @@
    (dcm :> "dicom") @@ (dicom :> "dicom") @@
    (mhd :> "meta") @@ (mha :> "meta") @@
    (nrrd :> "nrrd") @@ (nhdr :> "nrrd") @@
    (png :> "png") @@ (bmp :> "bmp") @@
    (tif :> "tif") @@ (tiff :> "tif") @@
    (jpg :> "jpg") @@ (jpeg :> "jpg")

type_to_string ==
    ("nifti" :> "NifTi (.nii, nii.gz)") @@
    ("analyze" :> "Analyze (.hdr/.img, .img.gz)") @@
    ("dicom" :> "Dicom (.dcm, .dicom)") @@
    ("meta" :> "Itk/Vtk MetaImage (.mhd, .mha/.raw)") @@
    ("nrrd" :> "Nrrd (.nhdr, .nrrd)") @@
    ("png" :> "Portable Network Graphics (.png)") @@
    ("bmp" :> "Bitmap Image File (.bmp)") @@
    ("tif" :> "Tagged Image File Format (.tif,.tiff)") @@
    ("jpg" :> "Joint Photographic Experts Group (.jpg, .jpeg)")

type_to_function_analyze_itk ==
    ("nifti" :> "nibabel") @@ ("analyze" :> "itk") @@
    ("dicom" :> "pydicom") @@
    ("meta" :> "itk") @@ ("nrrd" :> "itk") @@ ("png" :> "itk") @@
    ("bmp" :> "itk") @@ ("tif" :> "itk") @@ ("jpg" :> "itk")
type_to_function ==
    ("nifti" :> "nibabel") @@ ("analyze" :> "nibabel") @@
    ("dicom" :> "pydicom") @@
    ("meta" :> "itk") @@ ("nrrd" :> "itk") @@ ("png" :> "itk") @@
    ("bmp" :> "itk") @@ ("tif" :> "itk") @@ ("jpg" :> "itk")

load_fallback_order_itk_first == <<"itk", "nibabel", "pydicom">>
load_fallback_order == <<"nibabel", "pydicom", "itk">>

\* the four responsibility structures load() builds on entry
Tables ==
    [suffix_to_type      |-> suffix_to_type,
     type_to_string      |-> type_to_string,
     type_to_function    |-> type_to_function,
     load_fallback_order |-> load_fallback_order]


\* ---------------------------------------------------------------- inputs
Calls == {1, 2}

\* the last segments the generated paths are built from
Words ==
    {nii, hdr, img, dcm, dicom, mhd, mha, nrrd, nhdr, png, bmp, tif, tiff,
     jpg, jpeg, gz,
     <<"N", "I", "I">>, <<"G", "Z">>, <<"I", "m", "g">>, <<"D", "C", "M">>,
     <<"x", "y", "z">>, <<"x">>, <<>>}

\* the segments that may come right before the last one
Penult == {nii, <<"N", "I", "I">>, img, <<"I", "m", "g">>, hdr, png, <<"x">>, <<>>}

\* the leading segments (directories and stems)
Stems == {<<"x">>, <<"/", "d", ".", "n", "i", "i", "/", "x">>}

RECURSIVE SeqsUpTo(_, _)
SeqsUpTo(S, n) ==
    IF n = 0 THEN {<<>>}
    ELSE LET shorter == SeqsUpTo(S, n - 1)
         IN  shorter \cup {Append(q, x) : q \in shorter, x \in S}

Paths ==
    {Join(pre \o <<w>>) : pre \in SeqsUpTo(Stems, MaxStem), w \in Words}
    \cup
    {Join(pre \o <<v, w>>) : pre \in SeqsUpTo(Stems, MaxStem), v \in Penult, w \in Words}

\* the paths of the two-call and of the faulty-logger specifications
FewPaths ==
    {<<"x", ".", "n", "i", "i">>, <<"x", ".", "D", "C", "M">>,
     <<"x", ".", "x", "y", "z">>}

\* img.pixel_array of the data sets pydicom can read
Pixels == {<<<<1, 2>>, <<3, 4>>>>, <<<<1, 2, 3>>>>}

\* the squeezed / converted array nibabel and itk deliver
Voxels == <<<<7, 8>>>>

\* the logging calls load() itself makes
LogSites == {"info136", "debug165", "debug171"}

\* ---------------------------------------------------------------- state
VARIABLES
    pc,         \* pc[c]: where call c stands in load()
    image,      \* image[c]: the argument of load() (line 25)
    exists,     \* exists[c]: what os.path.exists(image) answers (line 139)
    tables,     \* tables[c]: the dictionaries of the call (lines 92-130)
    suffix,     \* suffix[c]: local `suffix` (lines 145-147)
    image_type, \* image_type[c]: local `image_type` (line 151)
    loader,     \* loader[c]: local `loader` (lines 153, 167)
    err,        \* err[c]: local `err`, the pending error (lines 158-162)
    idx,        \* idx[c]: position of the for loop of line 167
    phase,      \* phase[c]: "primary" or "fallback", who called the loader
    trace,      \* trace[c]: the loader invocations of the call, in order
    log,        \* log[c]: the logging calls of load() that went through
    outcome,    \* outcome[c]: what load() returned or raised
    logFaults   \* the logging calls of load() that raise (Logger is not in load.py)

vars == <<pc, image, exists, tables, suffix, image_type, loader, err, idx,
          phase, trace, log, outcome, logFaults>>

None == [kind |-> "unset", about |-> {}, reason |-> ""]
NoOutcome ==
    [tag |-> "none", kind |-> "", origin |-> "", error |-> None,
     arr |-> <<>>, hdr |-> <<>>]

\* `raise e` of an error load() built itself
Raise(e) ==
    [tag |-> "raise", kind |-> e.kind, origin |-> "load", error |-> e,
     arr |-> <<>>, hdr |-> <<>>]

\* an exception of somebody else leaving load() unhandled
Propagate(kind, who) ==
    [tag |-> "raise", kind |-> kind, origin |-> who, error |-> None,
     arr |-> <<>>, hdr |-> <<>>]

\* `return loader(image)`
Return(arr, h) ==
    [tag |-> "return", kind |-> "", origin |-> h[1], error |-> None,
     arr |-> arr, hdr |-> h]

\* scipy.transpose of a two-dimensional array
TransposeIdentity(a) == a
Transpose(a) == [j \in 1..Len(a[1]) |-> [i \in 1..Len(a) |-> a[i][j]]]


Range(f) == {f[x] : x \in DOMAIN f}

\* ---------------------------------------------------------------- load(): classification
\* lines 145-149: the suffix the path is classified by, or a KeyError
ClassifySuffix(T, path) ==
    LET parts  == Split(path)
        single == Lower(Last(parts))
        double == Join([i \in 1..Len(LastTwo(parts)) |-> Lower(LastTwo(parts)[i])])
    IN  IF single \in DOMAIN T.suffix_to_type
        THEN [found |-> TRUE, suffix |-> single]
        ELSE IF double \in DOMAIN T.suffix_to_type
        THEN [found |-> TRUE, suffix |-> double]
        ELSE [found |-> FALSE, suffix |-> double]

\* lines 157-160: the pending error after a failed primary attempt
PendingAlwaysLoading(T, type, exc) ==
    [kind |-> "ImageLoadingError", about |-> {T.type_to_string[type]}, reason |-> exc]
PendingFor(T, type, exc) ==
    IF exc = "ImportError"
    THEN [kind |-> "DependencyError", about |-> {T.type_to_string[type]}, reason |-> exc]
    ELSE [kind |-> "ImageLoadingError", about |-> {T.type_to_string[type]}, reason |-> exc]

\* line 162: the pending error after a failed classification
PendingType(T) ==
    [kind |-> "ImageTypeError", about |-> Range(T.type_to_string), reason |-> "KeyError"]

\* line 140
Missing == [kind |-> "ImageLoadingError", about |-> {}, reason |-> "does not exist"]

\* ---------------------------------------------------------------- loaders
\* what a call of __load_nibabel / __load_itk ends with
Failures(backend) ==
    IF backend = "itk" THEN {"ImportError", "Exception", "ImageLoadingError"}
    ELSE {"ImportError", "Exception"}

Entry(backend, ph, status, exc, arr, h, reads, pix) ==
    [backend |-> backend, phase |-> ph, status |-> status, exc |-> exc,
     arr |-> arr, hdr |-> h, reads |-> reads, pix |-> pix]

\* the entries a finished call of __load_nibabel / __load_itk can leave
SimpleEntries(backend, ph, n) ==
    {Entry(backend, ph, "ok", "", Voxels, <<backend, n>>, <<>>, <<>>)}
    \cup {Entry(backend, ph, "fail", x, <<>>, <<>>, <<>>, <<>>) : x \in Failures(backend)}

\* ---------------------------------------------------------------- load(): control flow
\* lines 156, 169: `return loader(image)` hands a loader's result to the caller
ReturnsInFallbackOnly(ent) == ent.status = "ok" /\ ent.phase = "fallback"
Returns(ent) == ent.status = "ok"

\* what load() does with a finished loader call `ent`; tr is the new trace
Settle(c, ent, tr) ==
    /\ trace' = [trace EXCEPT ![c] = tr]
    /\ IF Returns(ent)
       THEN \* lines 156, 169: return loader(image)
            /\ outcome' = [outcome EXCEPT ![c] = Return(ent.arr, ent.hdr)]
            /\ pc' = [pc EXCEPT ![c] = "done"]
            /\ UNCHANGED <<err, idx, log>>
       ELSE IF ent.phase = "primary"
       THEN \* lines 157-160
            /\ err' = [err EXCEPT ![c] = PendingFor(tables[c], image_type[c], ent.exc)]
            /\ pc' = [pc EXCEPT ![c] = "brute"]
            /\ UNCHANGED <<outcome, idx, log>>
       ELSE \* lines 170-171
            IF "debug171" \in logFaults
            THEN /\ outcome' = [outcome EXCEPT ![c] = Propagate("LoggerFailure", "logger")]
                 /\ pc' = [pc EXCEPT ![c] = "done"]
                 /\ UNCHANGED <<err, idx, log>>
            ELSE /\ log' = [log EXCEPT ![c] = Append(@, "debug171")]
                 /\ idx' = [idx EXCEPT ![c] = @ + 1]
                 /\ pc' = [pc EXCEPT ![c] = "fallback"]
                 /\ UNCHANGED <<outcome, err>>

\* calling loader `backend` from `ph`: nibabel and itk answer at once,
\* pydicom is entered
Invoke(c, backend, ph) ==
    LET n == Len(trace[c]) + 1
    IN  /\ phase' = [phase EXCEPT ![c] = ph]
        /\ loader' = [loader EXCEPT ![c] = backend]
        /\ IF backend = "pydicom"
           THEN /\ trace' = [trace EXCEPT ![c] =
                        Append(@, Entry(backend, ph, "running", "", <<>>, <<>>, <<>>, <<>>))]
                /\ pc' = [pc EXCEPT ![c] = "dicom_import"]
                /\ UNCHANGED <<outcome, err, idx, log>>
           ELSE \E ent \in SimpleEntries(backend, ph, n) :
                    Settle(c, ent, Append(trace[c], ent))


\* line 139: not os.path.exists(image)
NotFoundIgnored(c) == FALSE
NotFound(c) == ~exists[c]

\* lines 135-140: the first logging call and the existence check
Begin(c) ==
    /\ pc[c] = "start"
    /\ IF "info136" \in logFaults
       THEN /\ outcome' = [outcome EXCEPT ![c] = Propagate("LoggerFailure", "logger")]
            /\ pc' = [pc EXCEPT ![c] = "done"]
            /\ UNCHANGED log
       ELSE /\ log' = [log EXCEPT ![c] = Append(@, "info136")]
            /\ IF NotFound(c)
               THEN /\ outcome' = [outcome EXCEPT ![c] = Raise(Missing)]
                    /\ pc' = [pc EXCEPT ![c] = "done"]
               ELSE /\ pc' = [pc EXCEPT ![c] = "classify"]
                    /\ UNCHANGED outcome
    /\ UNCHANGED <<image, exists, tables, suffix, image_type, loader, err, idx,
                   phase, trace, logFaults>>

\* lines 143-153 and 161-162: suffix, image type and responsible loader
Classify(c) ==
    /\ pc[c] = "classify"
    /\ LET cls == ClassifySuffix(tables[c], image[c])
       IN  IF cls.found
           THEN /\ suffix' = [suffix EXCEPT ![c] = cls.suffix]
                /\ image_type' = [image_type EXCEPT ![c] = tables[c].suffix_to_type[cls.suffix]]
                /\ loader' = [loader EXCEPT ![c] =
                        tables[c].type_to_function[tables[c].suffix_to_type[cls.suffix]]]
                /\ pc' = [pc EXCEPT ![c] = "primary"]
                /\ UNCHANGED err
           ELSE /\ suffix' = [suffix EXCEPT ![c] = cls.suffix]
                /\ err' = [err EXCEPT ![c] = PendingType(tables[c])]
                /\ pc' = [pc EXCEPT ![c] = "brute"]
                /\ UNCHANGED <<image_type, loader>>
    /\ UNCHANGED <<image, exists, tables, idx, phase, trace, log, outcome, logFaults>>

\* lines 154-160: the registered loader is called
Primary(c) ==
    /\ pc[c] = "primary"
    /\ Invoke(c, loader[c], "primary")
    /\ UNCHANGED <<image, exists, tables, suffix, image_type, logFaults>>

\* line 165: brute force mode is entered, line 167: the loop starts
EnterBrute(c) ==
    /\ pc[c] = "brute"
    /\ IF "debug165" \in logFaults
       THEN /\ outcome' = [outcome EXCEPT ![c] = Propagate("LoggerFailure", "logger")]
            /\ pc' = [pc EXCEPT ![c] = "done"]
            /\ UNCHANGED <<log, idx>>
       ELSE /\ log' = [log EXCEPT ![c] = Append(@, "debug165")]
            /\ idx' = [idx EXCEPT ![c] = 1]
            /\ pc' = [pc EXCEPT ![c] = "fallback"]
            /\ UNCHANGED outcome
    /\ UNCHANGED <<image, exists, tables, suffix, image_type, loader, err,
                   phase, trace, logFaults>>

\* the loop of lines 167-171 goes on while it has a loader left
MoreLoadersOffByOne(c) == idx[c] < Len(tables[c].load_fallback_order)
MoreLoaders(c) == idx[c] <= Len(tables[c].load_fallback_order)

\* the loader the loop of lines 167-171 tries next
NextLoader(c) == tables[c].load_fallback_order[idx[c]]

\* line 173: the error `raise err` raises is the local of this call
PendingShared(c) == err[CHOOSE d \in Calls : \A o \in Calls : d <= o]
Pending(c) == err[c]

\* lines 167-169: one round of the brute force loop
Fallback(c) ==
    /\ pc[c] = "fallback"
    /\ MoreLoaders(c)
    /\ Invoke(c, NextLoader(c), "fallback")
    /\ UNCHANGED <<image, exists, tables, suffix, image_type, logFaults>>

\* line 173: every loader failed, the pending error is raised
RaiseErr(c) ==
    /\ pc[c] = "fallback"
    /\ ~MoreLoaders(c)
    /\ outcome' = [outcome EXCEPT ![c] = Raise(Pending(c))]
    /\ pc' = [pc EXCEPT ![c] = "done"]
    /\ UNCHANGED <<image, exists, tables, suffix, image_type, loader, err, idx,
                   phase, trace, log, logFaults>>


\* ---------------------------------------------------------------- __load_pydicom
Running(c) == trace[c][Len(trace[c])]

\* __load_pydicom returns or raises: load() goes on with the finished entry
Leave(c, ent) == Settle(c, ent, [trace[c] EXCEPT ![Len(trace[c])] = ent])

\* __load_pydicom goes on to its next statement
Proceed(c, ent, to) ==
    /\ trace' = [trace EXCEPT ![c] = [@ EXCEPT ![Len(@)] = ent]]
    /\ pc' = [pc EXCEPT ![c] = to]
    /\ UNCHANGED <<outcome, err, idx, log>>

DicomFrame == <<image, exists, tables, suffix, image_type, loader, phase, logFaults>>

\* line 197: import dicom
DicomImport(c) ==
    /\ pc[c] = "dicom_import"
    /\ \/ Proceed(c, Running(c), "dicom_read")
       \/ Leave(c, [Running(c) EXCEPT !.status = "fail", !.exc = "ImportError"])
    /\ UNCHANGED DicomFrame

\* where __load_pydicom goes after dicom.read_file(image) raised `exc`
AfterReadErrorRetryAll(exc) == "dicom_force"
AfterReadError(exc) == IF exc = "InvalidDicomError" THEN "dicom_force" ELSE "raise"

\* lines 202-205: img = dicom.read_file(image)
DicomRead(c) ==
    /\ pc[c] = "dicom_read"
    /\ \E r \in {"ok", "InvalidDicomError", "Exception"} :
        LET ent == [Running(c) EXCEPT !.reads = Append(@, [force |-> FALSE, res |-> r])]
        IN  IF r = "ok" THEN Proceed(c, ent, "dicom_pixel")
            ELSE IF AfterReadError(r) = "dicom_force" THEN Proceed(c, ent, "dicom_force")
            ELSE Leave(c, [ent EXCEPT !.status = "fail", !.exc = r])
    /\ UNCHANGED DicomFrame

\* line 206: img = dicom.read_file(image, force=True)
DicomForce(c) ==
    /\ pc[c] = "dicom_force"
    /\ \E r \in {"ok", "Exception"} :
        LET ent == [Running(c) EXCEPT !.reads = Append(@, [force |-> TRUE, res |-> r])]
        IN  IF r = "ok" THEN Proceed(c, ent, "dicom_pixel")
            ELSE Leave(c, [ent EXCEPT !.status = "fail", !.exc = r])
    /\ UNCHANGED DicomFrame

\* lines 207-210: arr = img.pixel_array; return scipy.transpose(arr), img
DicomPixel(c) ==
    /\ pc[c] = "dicom_pixel"
    /\ \/ \E a \in Pixels :
            Leave(c, [Running(c) EXCEPT !.status = "ok", !.pix = a,
                          !.arr = Transpose(a),
                          !.hdr = <<"pydicom", Len(trace[c])>>])
       \/ \E x \in {"ImportError", "Exception"} :
            Leave(c, [Running(c) EXCEPT !.status = "fail", !.exc = x])
    /\ UNCHANGED DicomFrame

\* ---------------------------------------------------------------- specifications
InitCommon ==
    /\ tables = [c \in Calls |-> Tables]
    /\ suffix = [c \in Calls |-> <<>>]
    /\ image_type = [c \in Calls |-> ""]
    /\ loader = [c \in Calls |-> ""]
    /\ err = [c \in Calls |-> None]
    /\ idx = [c \in Calls |-> 0]
    /\ phase = [c \in Calls |-> ""]
    /\ trace = [c \in Calls |-> <<>>]
    /\ log = [c \in Calls |-> <<>>]
    /\ outcome = [c \in Calls |-> NoOutcome]

\* one call of load()
Init ==
    /\ InitCommon
    /\ pc = [c \in Calls |-> IF c = 1 THEN "start" ELSE "off"]
    /\ \E p \in Paths : image = [c \in Calls |-> IF c = 1 THEN p ELSE <<>>]
    /\ \E e \in BOOLEAN : exists = [c \in Calls |-> IF c = 1 THEN e ELSE FALSE]
    /\ logFaults = {}

\* two calls of load() at the same time
InitTwo ==
    /\ InitCommon
    /\ pc = [c \in Calls |-> "start"]
    /\ image \in [Calls -> FewPaths]
    /\ exists \in [Calls -> BOOLEAN]
    /\ logFaults = {}

\* one call of load() with a logger whose calls may raise
InitLog ==
    /\ InitCommon
    /\ pc = [c \in Calls |-> IF c = 1 THEN "start" ELSE "off"]
    /\ \E p \in FewPaths : image = [c \in Calls |-> IF c = 1 THEN p ELSE <<>>]
    /\ \E e \in BOOLEAN : exists = [c \in Calls |-> IF c = 1 THEN e ELSE FALSE]
    /\ logFaults \in SUBSET LogSites

Next ==
    \E c \in Calls :
        \/ Begin(c)
        \/ Classify(c)
        \/ Primary(c)
        \/ EnterBrute(c)
        \/ Fallback(c)
        \/ RaiseErr(c)
        \/ DicomImport(c)
        \/ DicomRead(c)
        \/ DicomForce(c)
        \/ DicomPixel(c)

Spec == Init /\ [][Next]_vars
SpecTwo == InitTwo /\ [][Next]_vars
SpecLog == InitLog /\ [][Next]_vars

TypeOK ==
    /\ \A c \in Calls : pc[c] \in {"off", "start", "classify", "primary", "brute",
                                  "fallback", "dicom_import", "dicom_read",
                                  "dicom_force", "dicom_pixel", "done"}
    /\ \A c \in Calls : idx[c] \in 0..4


\* ---------------------------------------------------------------- vocabulary of the properties
Started == {c \in Calls : pc[c] # "off"}
Done(c) == pc[c] = "done"

\* the loader calls of call c made as primary attempt / in brute force mode
PrimaryCalls(c) == SelectSeq(trace[c], LAMBDA e : e.phase = "primary")
FallbackCalls(c) == SelectSeq(trace[c], LAMBDA e : e.phase = "fallback")

BackendA == "nibabel"
BackendB == "pydicom"
BackendC == "itk"

SuffixesA == {nii, nii_gz, hdr, img, img_gz}
SuffixesB == {dcm, dicom}
SuffixesC == {mhd, mha, nrrd, nhdr, png, bmp, tif, tiff, jpg, jpeg}
KnownSuffixes == SuffixesA \cup SuffixesB \cup SuffixesC

Registered(s) ==
    IF s \in SuffixesA THEN BackendA ELSE IF s \in SuffixesB THEN BackendB ELSE BackendC

DotsOf(p) == {i \in 1..Len(p) : p[i] = "."}
MaxOf(S) == CHOOSE m \in S : \A x \in S : x <= m
CaseFold(p) == [i \in 1..Len(p) |-> LowerChar(p[i])]

\* the text after the last dot of p (all of p when it has no dot)
TextAfterLastDot(p) ==
    IF DotsOf(p) = {} THEN p ELSE SubSeq(p, MaxOf(DotsOf(p)) + 1, Len(p))

\* the last two dot separated segments of p, with their dot
TextAfterSecondLastDot(p) ==
    IF Cardinality(DotsOf(p)) < 2 THEN p
    ELSE SubSeq(p, MaxOf(DotsOf(p) \ {MaxOf(DotsOf(p))}) + 1, Len(p))

SingleSuffix(p) == CaseFold(TextAfterLastDot(p))
CompoundSuffix(p) == CaseFold(TextAfterSecondLastDot(p))

\* the suffix p is recognized by, <<>> when it is recognized by none
RecognizedSuffix(p) ==
    IF SingleSuffix(p) \in KnownSuffixes THEN SingleSuffix(p)
    ELSE IF CompoundSuffix(p) \in KnownSuffixes THEN CompoundSuffix(p)
    ELSE <<>>

Recognized(p) == RecognizedSuffix(p) \in KnownSuffixes

AllFailed(es) == \A i \in 1..Len(es) : es[i].status = "fail"

\* ---------------------------------------------------------------- C1
\* C1: a call on a path that does not exist never invokes a loader, and when
\* it has ended it has raised the ImageLoadingError load() builds itself,
\* whether or not the suffix of the path is a recognized one.
C1_MissingPathRaisesWithoutBackend ==
    \A c \in Started :
        ~exists[c] =>
            /\ trace[c] = <<>>
            /\ pc[c] \in {"start", "done"}
            /\ Done(c) =>
                /\ outcome[c].tag = "raise"
                /\ outcome[c].kind = "ImageLoadingError"
                /\ outcome[c].origin = "load"

C1_Witness ==
    \E c \in Started :
        /\ Done(c) /\ ~exists[c] /\ Recognized(image[c])
        /\ outcome[c].kind = "ImageLoadingError" /\ trace[c] = <<>>

\* ---------------------------------------------------------------- C2
\* C2: on an existing path with a recognized suffix the first loader invoked
\* is the primary call of the backend registered for that suffix: A for nii,
\* nii.gz, hdr, img, img.gz; B for dcm, dicom; C for the other ten.
C2_FirstBackendIsRegistered ==
    \A c \in Started :
        (exists[c] /\ Recognized(image[c])) =>
            /\ trace[c] # <<>> =>
                /\ trace[c][1].backend = Registered(RecognizedSuffix(image[c]))
                /\ trace[c][1].phase = "primary"
            /\ Done(c) => trace[c] # <<>>

C2_Witness ==
    \E c \in Started :
        /\ exists[c] /\ RecognizedSuffix(image[c]) = img_gz
        /\ trace[c] # <<>> /\ trace[c][1].backend = BackendA
        /\ Done(c)

\* ---------------------------------------------------------------- C3
\* C3: when load() fails on an existing file every loader call has failed and
\* the error raised is the pending one, built by load(): ImageTypeError for
\* an unrecognized suffix, DependencyError when the primary call failed with
\* an ImportError, ImageLoadingError when it failed otherwise; what the
\* fallback calls failed with does not matter.
C3_RaisedErrorIsThePendingOne ==
    \A c \in Started :
        (Done(c) /\ exists[c] /\ outcome[c].tag = "raise") =>
            /\ outcome[c].origin = "load"
            /\ outcome[c].error = err[c]
            /\ outcome[c].kind = err[c].kind
            /\ AllFailed(trace[c])
            /\ Len(FallbackCalls(c)) = 3
            /\ IF ~Recognized(image[c])
               THEN outcome[c].kind = "ImageTypeError" /\ PrimaryCalls(c) = <<>>
               ELSE /\ trace[c][1].phase = "primary"
                    /\ outcome[c].kind =
                          IF trace[c][1].exc = "ImportError"
                          THEN "DependencyError" ELSE "ImageLoadingError"

C3_Witness ==
    \E c \in Started :
        /\ Done(c) /\ exists[c] /\ outcome[c].tag = "raise"
        /\ outcome[c].kind = "DependencyError"
        /\ trace[c][1].backend = BackendB
        /\ \E i \in 2..Len(trace[c]) : trace[c][i].exc = "ImageLoadingError"
        /\ \E i \in 2..Len(trace[c]) : trace[c][i].exc = "Exception"

\* ---------------------------------------------------------------- C4
\* C4: the fallback calls are made only with a pending error, in the order
\* A, B, C; each one but the last has failed; the first that succeeds ends
\* load(), which returns that call's (array, header) pair and raises nothing.
C4_FallbackOrderAndFirstSuccess ==
    \A c \in Started :
        LET fb == FallbackCalls(c)
        IN  /\ Len(fb) <= 3
            /\ \A i \in 1..Len(fb) : fb[i].backend = <<BackendA, BackendB, BackendC>>[i]
            /\ \A i \in 1..Len(fb) : i < Len(fb) => fb[i].status = "fail"
            /\ fb # <<>> => err[c].kind \in {"ImageTypeError", "DependencyError",
                                             "ImageLoadingError"}
            /\ \A i \in 1..Len(fb) :
                 fb[i].status = "ok" =>
                    /\ Done(c)
                    /\ outcome[c] = Return(fb[i].arr, fb[i].hdr)
                    /\ fb[i] = trace[c][Len(trace[c])]

C4_Witness ==
    \E c \in Started :
        /\ Done(c) /\ outcome[c].tag = "return"
        /\ err[c].kind = "DependencyError"
        /\ Len(FallbackCalls(c)) = 3
        /\ FallbackCalls(c)[3].status = "ok"
        /\ outcome[c].hdr = <<BackendC, 4>>

\* ---------------------------------------------------------------- C5
\* C5: when the primary call succeeds it is the only loader call of load(),
\* load() returns its pair, and brute force mode is not entered.
C5_PrimarySuccessReturnsAtOnce ==
    \A c \in Started :
        (trace[c] # <<>> /\ trace[c][1].phase = "primary" /\ trace[c][1].status = "ok") =>
            /\ Len(trace[c]) = 1
            /\ Done(c)
            /\ outcome[c] = Return(trace[c][1].arr, trace[c][1].hdr)
            /\ err[c] = None
            /\ \A i \in 1..Len(log[c]) : log[c][i] = "info136"

C5_Witness ==
    \E c \in Started :
        /\ Done(c) /\ trace[c] # <<>> /\ trace[c][1].phase = "primary"
        /\ trace[c][1].status = "ok" /\ trace[c][1].backend = BackendB
        /\ outcome[c].tag = "return" /\ outcome[c].arr = <<<<1>>, <<2>>, <<3>>>>


\* ---------------------------------------------------------------- load() run on its own
\* the first successful call of es, 0 when there is none
FirstOk(es) ==
    IF \E i \in 1..Len(es) : es[i].status = "ok"
    THEN CHOOSE i \in 1..Len(es) :
            es[i].status = "ok" /\ \A j \in 1..(i - 1) : es[j].status # "ok"
    ELSE 0

\* lines 164-173 on the loader answers es, with the pending error e
BruteForce(e, es) ==
    IF FirstOk(es) # 0 THEN Return(es[FirstOk(es)].arr, es[FirstOk(es)].hdr)
    ELSE IF Len(es) = Len(load_fallback_order) /\ AllFailed(es) THEN Raise(e)
    ELSE NoOutcome

\* load(path) run alone with a working logger, on a file system answering e
\* and loaders answering tr, call after call; NoOutcome when load() would
\* ask for a loader answer tr does not have
LoadAlone(path, e, tr) ==
    LET cls == ClassifySuffix(Tables, path)
    IN  IF ~e THEN Raise(Missing)
        ELSE IF ~cls.found THEN BruteForce(PendingType(Tables), tr)
        ELSE IF tr = <<>> THEN NoOutcome
        ELSE IF tr[1].status = "ok" THEN Return(tr[1].arr, tr[1].hdr)
        ELSE IF tr[1].status = "fail"
        THEN BruteForce(PendingFor(Tables, suffix_to_type[cls.suffix], tr[1].exc), Tail(tr))
        ELSE NoOutcome

\* ---------------------------------------------------------------- C6
\* C6: a logging call of load() that fails changes nothing: a call that has
\* ended has returned or raised what load() returns or raises with a working
\* logger on the same file system and loader answers.
C6_LoggingFailureChangesNothing ==
    \A c \in Started :
        Done(c) => outcome[c] = LoadAlone(image[c], exists[c], trace[c])

\* ---------------------------------------------------------------- C7
\* C7: with two calls of load() interleaved, no call changes a table or the
\* fallback order, and each call that has ended has the outcome it has when
\* run alone on the same loader answers.
C7_CallsDoNotInterfere ==
    /\ \A c \in Calls : tables[c] = Tables
    /\ \A c \in Calls : tables[c].load_fallback_order = <<BackendA, BackendB, BackendC>>
    /\ \A c \in Started :
          Done(c) => outcome[c] = LoadAlone(image[c], exists[c], trace[c])

C7_Witness ==
    /\ \A c \in Calls : Done(c) /\ exists[c]
    /\ outcome[1].tag = "raise" /\ outcome[1].kind = "ImageTypeError"
    /\ outcome[2].tag = "raise" /\ outcome[2].kind = "DependencyError"

\* ---------------------------------------------------------------- C8
\* C8: the suffix is looked up without regard to case, first the text after
\* the last dot and only if that is unknown the last two segments; x.NII.GZ
\* is nifti by nii.gz, x.hdr.img is analyze by img; when both are unknown no
\* primary call is made and brute force starts with a pending ImageTypeError.
C8_TwoStageCaseInsensitiveSuffix ==
    \A c \in Started :
        pc[c] \notin {"start", "classify"} /\ exists[c] =>
            /\ SingleSuffix(image[c]) \in KnownSuffixes =>
                  /\ suffix[c] = SingleSuffix(image[c])
                  /\ image_type[c] = suffix_to_type[SingleSuffix(image[c])]
            /\ (SingleSuffix(image[c]) \notin KnownSuffixes
                    /\ CompoundSuffix(image[c]) \in KnownSuffixes) =>
                  /\ suffix[c] = CompoundSuffix(image[c])
                  /\ image_type[c] = suffix_to_type[CompoundSuffix(image[c])]
            /\ (SingleSuffix(image[c]) \notin KnownSuffixes
                    /\ CompoundSuffix(image[c]) \notin KnownSuffixes) =>
                  /\ image_type[c] = ""
                  /\ PrimaryCalls(c) = <<>>
                  /\ err[c].kind = "ImageTypeError"
                  /\ trace[c] = <<>> => pc[c] \in {"brute", "fallback"}
            /\ image[c] = <<"x", ".", "N", "I", "I", ".", "G", "Z">> =>
                  suffix[c] = nii_gz /\ image_type[c] = "nifti"
            /\ image[c] = <<"x", ".", "h", "d", "r", ".", "i", "m", "g">> =>
                  suffix[c] = img /\ image_type[c] = "analyze"

C8_Witness ==
    \E c \in Started :
        /\ image[c] = <<"x", ".", "N", "I", "I", ".", "G", "Z">>
        /\ exists[c] /\ image_type[c] = "nifti" /\ trace[c] # <<>>

\* ---------------------------------------------------------------- C9
\* C9: a call makes at most one primary loader call, then at most three
\* fallback calls; when the suffix is recognized and every call failed the
\* primary backend was called twice, the other two once each, and load()
\* ends by raising the pending error.
Count(es, b) == Len(SelectSeq(es, LAMBDA e : e.backend = b))

C9_BoundedAttemptsPrimaryRetried ==
    \A c \in Started :
        /\ Len(PrimaryCalls(c)) <= 1
        /\ Len(FallbackCalls(c)) <= 3
        /\ Len(trace[c]) <= 4
        /\ \A i \in 1..Len(trace[c]) : trace[c][i].phase = "primary" => i = 1
        /\ PrimaryCalls(c) = <<>> => Len(trace[c]) <= 3
        /\ (Done(c) /\ exists[c] /\ Recognized(image[c]) /\ AllFailed(trace[c])) =>
              /\ Len(trace[c]) = 4
              /\ Count(trace[c], trace[c][1].backend) = 2
              /\ \A b \in {BackendA, BackendB, BackendC} \ {trace[c][1].backend} :
                    Count(trace[c], b) = 1
              /\ outcome[c] = Raise(err[c])
        /\ (Len(trace[c]) = 4 /\ AllFailed(trace[c])) =>
              pc[c] \in {"fallback", "done"} /\ idx[c] = 4

C9_Witness ==
    \E c \in Started :
        /\ Done(c) /\ exists[c] /\ Recognized(image[c]) /\ AllFailed(trace[c])
        /\ trace[c][1].backend = BackendC /\ Count(trace[c], BackendC) = 2
        /\ outcome[c].tag = "raise"

\* ---------------------------------------------------------------- C10
\* C10: a call of the pydicom loader reads at most twice; the second read is
\* the forced one and is made only after the normal read raised
\* InvalidDicomError; another error of the normal read, or an error of the
\* forced read, ends the call with that error; a successful call returns the
\* transpose of the pixel array it read.
IsTransposeOf(a, b) ==
    /\ Len(a) = Len(b[1])
    /\ \A j \in 1..Len(a) :
          /\ Len(a[j]) = Len(b)
          /\ \A i \in 1..Len(b) : a[j][i] = b[i][j]

C10_PydicomReadsAtMostTwice ==
    \A c \in Started :
        \A k \in 1..Len(trace[c]) :
            LET e == trace[c][k]
            IN  e.backend = BackendB =>
                /\ Len(e.reads) <= 2
                /\ \A i \in 1..Len(e.reads) : e.reads[i].force = (i = 2)
                /\ Len(e.reads) = 2 => e.reads[1].res = "InvalidDicomError"
                /\ (Len(e.reads) >= 1
                        /\ e.reads[1].res \notin {"ok", "InvalidDicomError"}) =>
                      /\ Len(e.reads) = 1
                      /\ e.status = "fail" /\ e.exc = e.reads[1].res
                /\ (Len(e.reads) = 2 /\ e.reads[2].res # "ok") =>
                      e.status = "fail" /\ e.exc = e.reads[2].res
                /\ e.status = "ok" =>
                      /\ e.reads # <<>>
                      /\ e.reads[Len(e.reads)].res = "ok"
                      /\ IsTransposeOf(e.arr, e.pix)

C10_Witness ==
    \E c \in Started :
        \E k \in 1..Len(trace[c]) :
            /\ trace[c][k].backend = BackendB
            /\ trace[c][k].status = "ok"
            /\ Len(trace[c][k].reads) = 2
            /\ trace[c][k].pix = <<<<1, 2, 3>>>>
            /\ Done(c) /\ outcome[c].arr = <<<<1>>, <<2>>, <<3>>>>

====
